---- MODULE Spec2Model ----
(***************************************************************************)
(* A model of CashFlowGraph (src/cash_flow.py): the ledger kept in         *)
(* self.graph (a networkx DiGraph), add_transaction, and the balance       *)
(* derivation, partition and two-cursor matching loop of                   *)
(* optimize_transactions_floyd_warshall.                                   *)
(*                                                                         *)
(* A DiGraph keeps its nodes in insertion order and, per node, its         *)
(* successors in insertion order; edges(data=True) enumerates the nodes in *)
(* that order and, for each, its out-edges in that order.  A Python dict   *)
(* keeps its keys in insertion order.  Both orders are modelled.           *)
(***************************************************************************)
EXTENDS Integers, Sequences, FiniteSets, TLC

\* ---------------------------------------------------------------- bounds
PartyList == <<"A", "B", "C">>

Parties == {PartyList[n] : n \in 1..Len(PartyList)}

MaxTotal == 5

MaxFairTotal == 4

MaxRefund == 1

MaxCalls == 2

Pairs == Parties \X Parties

\* ------------------------------------------------------ sequence helpers
InSeq(s, x) == \E n \in 1..Len(s) : s[n] = x

\* what one call uses of MaxTotal: the magnitude of its amount, at least 1
Cost(amount) == IF amount > 0 THEN amount ELSE 1 - amount

Min(a, b) == IF a < b THEN a ELSE b

\* ------------------------------------------------------------ nx.DiGraph
\* nx.DiGraph(): no nodes, no edges.
EmptyGraph ==
    [nodes  |-> <<>>,
     adj    |-> [p \in Parties |-> <<>>],
     weight |-> [e \in Pairs |-> 0]]

\* graph.has_edge(u, v)
HasEdge(g, u, v) == InSeq(g.adj[u], v)

\* a node (or a successor) is appended on first insertion only
AddNode(ns, n) == IF InSeq(ns, n) THEN ns ELSE Append(ns, n)

\* graph.add_edge(u, v, weight=w): adds u, then v, then the edge; on an
\* existing edge the weight attribute is replaced and the position kept.
AddEdge(g, u, v, w) ==
    [nodes  |-> AddNode(AddNode(g.nodes, u), v),
     adj    |-> [g.adj EXCEPT ![u] = AddNode(@, v)],
     weight |-> [g.weight EXCEPT ![<<u, v>>] = w]]

OutEdges(g, u) ==
    [n \in 1..Len(g.adj[u]) |->
        <<u, g.adj[u][n], g.weight[<<u, g.adj[u][n]>>]>>]

RECURSIVE EdgesOf(_, _)
EdgesOf(g, ns) ==
    IF ns = <<>> THEN <<>>
    ELSE OutEdges(g, Head(ns)) \o EdgesOf(g, Tail(ns))

\* graph.edges(data=True): <<u, v, weight>> in enumeration order
Edges(g) == EdgesOf(g, g.nodes)

\* --------------------------------------------------------- add_transaction
add_transaction_overwrite(g, payer, payee, amount) ==
    AddEdge(g, payer, payee, amount)

add_transaction(g, payer, payee, amount) ==
    IF HasEdge(g, payer, payee)
    THEN [g EXCEPT !.weight[<<payer, payee>>] = @ + amount]
    ELSE AddEdge(g, payer, payee, amount)

\* ------------------------------------------------------------ balance dict
EmptyDict == [keys |-> <<>>, val |-> [p \in Parties |-> 0]]

\* balance.get(p, 0)
Get(d, p) == IF InSeq(d.keys, p) THEN d.val[p] ELSE 0

Put_front(d, p, x) ==
    [keys |-> IF InSeq(d.keys, p) THEN d.keys ELSE <<p>> \o d.keys,
     val  |-> [d.val EXCEPT ![p] = x]]

\* balance[p] = x
Put(d, p, x) ==
    [keys |-> AddNode(d.keys, p), val |-> [d.val EXCEPT ![p] = x]]

BalanceEdge_one_sided(d, e) == Put(d, e[1], Get(d, e[1]) - e[3])

\* one iteration of the loop over the edges
BalanceEdge(d, e) ==
    LET d1 == Put(d, e[1], Get(d, e[1]) - e[3])
    IN  Put(d1, e[2], Get(d1, e[2]) + e[3])

\* ---------------------------------------------------------------- partition
RECURSIVE DebtorsOf_signed(_, _)
DebtorsOf_signed(d, ks) ==
    IF ks = <<>> THEN <<>>
    ELSE (IF d.val[Head(ks)] < 0 THEN << <<Head(ks), d.val[Head(ks)]>> >>
          ELSE <<>>) \o DebtorsOf_signed(d, Tail(ks))

RECURSIVE DebtorsOf(_, _)
DebtorsOf(d, ks) ==
    IF ks = <<>> THEN <<>>
    ELSE (IF d.val[Head(ks)] < 0 THEN << <<Head(ks), -d.val[Head(ks)]>> >>
          ELSE <<>>) \o DebtorsOf(d, Tail(ks))

RECURSIVE CreditorsOf_nonneg(_, _)
CreditorsOf_nonneg(d, ks) ==
    IF ks = <<>> THEN <<>>
    ELSE (IF d.val[Head(ks)] >= 0 THEN << <<Head(ks), d.val[Head(ks)]>> >>
          ELSE <<>>) \o CreditorsOf_nonneg(d, Tail(ks))

RECURSIVE CreditorsOf(_, _)
CreditorsOf(d, ks) ==
    IF ks = <<>> THEN <<>>
    ELSE (IF d.val[Head(ks)] < 0 THEN <<>>
          ELSE IF d.val[Head(ks)] > 0
               THEN << <<Head(ks), d.val[Head(ks)]>> >>
               ELSE <<>>) \o CreditorsOf(d, Tail(ks))

\* ------------------------------------------------------------ matching loop
TransAmt_unit(debt_amt, credit_amt) == 1

\* trans_amt = min(debt_amt, credit_amt)
TransAmt(debt_amt, credit_amt) == Min(debt_amt, credit_amt)

Advance_always(cursor, left) == cursor + 1

\* if debt_amt == 0: i += 1   (and the same for credit_amt and j)
Advance(cursor, left) == IF left = 0 THEN cursor + 1 ELSE cursor

\* else: debtors[i] = (debtor, debt_amt)   (and the same for creditors[j])
WriteBack(list, cursor, party, left) ==
    IF left = 0 THEN list
    ELSE [list EXCEPT ![cursor + 1] = <<party, left>>]

\* --------------------------------------------------------------------- state
VARIABLES
    graph,      \* self.graph
    outcome,    \* what the latest call did: add_transaction "merged" into
                \* an edge (line 13) or "added" one (line 15); "none" at first
                \* and for optimize_transactions_floyd_warshall
    pc,         \* "idle", or the position inside optimize_transactions_...
    calls,      \* completed calls of optimize_transactions_floyd_warshall
    k,          \* edges of self.graph already visited by the balance loop
    balance, debtors, creditors, i, j,      \* locals of the method
    total,      \* history: what the calls so far used of MaxTotal
    supplied,   \* history: total amount supplied per ordered pair
    firstSeen,  \* history: parties in order of first appearance in the calls
    original,   \* history: self.graph on entry to the first optimize call
    entry,      \* history: self.graph on entry to the latest optimize call
    emitted     \* history: transfers emitted by the latest matching loop

vars == <<graph, outcome, pc, calls, k, balance, debtors, creditors, i, j,
          total, supplied, firstSeen, original, entry, emitted>>

locals == <<k, balance, debtors, creditors, i, j>>

history == <<total, supplied, firstSeen, original, entry, emitted>>

Init ==
    /\ graph = EmptyGraph
    /\ outcome = "none"
    /\ pc = "idle"
    /\ calls = 0
    /\ k = 0
    /\ balance = EmptyDict
    /\ debtors = <<>>
    /\ creditors = <<>>
    /\ i = 0
    /\ j = 0
    /\ total = 0
    /\ supplied = [e \in Pairs |-> 0]
    /\ firstSeen = <<>>
    /\ original = EmptyGraph
    /\ entry = EmptyGraph
    /\ emitted = <<>>

\* One call graph.add_transaction(payer, payee, amount) made by main().
AddTransactionStep(payer, payee, amount) ==
    /\ pc = "idle"
    /\ calls = 0
    /\ graph' = add_transaction(graph, payer, payee, amount)
    /\ outcome' = IF HasEdge(graph, payer, payee) THEN "merged" ELSE "added"
    /\ total' = total + Cost(amount)
    /\ supplied' = [supplied EXCEPT ![<<payer, payee>>] = @ + amount]
    /\ firstSeen' = AddNode(AddNode(firstSeen, payer), payee)
    /\ UNCHANGED <<pc, calls, locals, original, entry, emitted>>

\* Manual input (number_input with min_value=1) and the built-in test cases.
AddWithin(limit) ==
    \E payer \in Parties, payee \in Parties, amount \in 1..(limit - total) :
        AddTransactionStep(payer, payee, amount)

AddTransaction == AddWithin(MaxTotal)

AddTransactionFair == AddWithin(MaxFairTotal)

\* Rows of an uploaded sheet: row['amount'] is passed on unchecked.
AddRow ==
    \E payer \in Parties, payee \in Parties,
       amount \in (0 - MaxRefund)..(MaxTotal - total) :
        /\ total + Cost(amount) <= MaxTotal
        /\ AddTransactionStep(payer, payee, amount)

\* Entry to optimize_transactions_floyd_warshall: balance = {}.
Optimize ==
    /\ pc = "idle"
    /\ calls < MaxCalls
    /\ pc' = "balance"
    /\ k' = 0
    /\ balance' = EmptyDict
    /\ debtors' = <<>>
    /\ creditors' = <<>>
    /\ i' = 0
    /\ j' = 0
    /\ emitted' = <<>>
    /\ entry' = graph
    /\ original' = IF calls = 0 THEN graph ELSE original
    /\ outcome' = "none"
    /\ UNCHANGED <<graph, calls, total, supplied, firstSeen>>

\* One iteration of  for u, v, data in self.graph.edges(data=True).
BalanceStep ==
    /\ pc = "balance"
    /\ k < Len(Edges(graph))
    /\ balance' = BalanceEdge(balance, Edges(graph)[k + 1])
    /\ k' = k + 1
    /\ UNCHANGED <<graph, outcome, pc, calls, debtors, creditors, i, j, history>>

\* The partition loop over balance.items(), then self.graph = nx.DiGraph()
\* and i, j = 0, 0.
PartitionStep ==
    /\ pc = "balance"
    /\ k = Len(Edges(graph))
    /\ debtors' = DebtorsOf(balance, balance.keys)
    /\ creditors' = CreditorsOf(balance, balance.keys)
    /\ graph' = EmptyGraph
    /\ i' = 0
    /\ j' = 0
    /\ pc' = "match"
    /\ UNCHANGED <<outcome, calls, k, balance, history>>

\* One iteration of the while loop.
MatchStep ==
    /\ pc = "match"
    /\ i < Len(debtors) /\ j < Len(creditors)
    /\ LET debtor     == debtors[i + 1][1]
           debt_amt   == debtors[i + 1][2]
           creditor   == creditors[j + 1][1]
           credit_amt == creditors[j + 1][2]
           trans_amt  == TransAmt(debt_amt, credit_amt)
           debt_left   == debt_amt - trans_amt
           credit_left == credit_amt - trans_amt
       IN  /\ graph' = AddEdge(graph, debtor, creditor, trans_amt)
           /\ emitted' = Append(emitted, <<debtor, creditor, trans_amt>>)
           /\ i' = Advance(i, debt_left)
           /\ debtors' = WriteBack(debtors, i, debtor, debt_left)
           /\ j' = Advance(j, credit_left)
           /\ creditors' = WriteBack(creditors, j, creditor, credit_left)
    /\ UNCHANGED <<outcome, pc, calls, k, balance,
                   total, supplied, firstSeen, original, entry>>

\* The loop condition fails and the method returns.
Return ==
    /\ pc = "match"
    /\ ~(i < Len(debtors) /\ j < Len(creditors))
    /\ pc' = "idle"
    /\ calls' = calls + 1
    /\ UNCHANGED <<graph, outcome, locals, history>>

Next ==
    \/ AddTransaction
    \/ Optimize
    \/ BalanceStep
    \/ PartitionStep
    \/ MatchStep
    \/ Return

Spec == Init /\ [][Next]_vars

\* Upload mode: the rows of one group, then one optimize call (line 137).
NextUpload ==
    \/ AddRow
    \/ Optimize /\ calls = 0
    \/ BalanceStep
    \/ PartitionStep
    \/ MatchStep
    \/ Return

SpecUpload == Init /\ [][NextUpload]_vars

\* One graph per run: its transactions, then one optimize call; the method
\* body runs to completion once entered (single-threaded, synchronous).
NextOnce ==
    \/ AddTransactionFair
    \/ Optimize /\ calls = 0
    \/ BalanceStep
    \/ PartitionStep
    \/ MatchStep
    \/ Return

\* a step of the body of optimize_transactions_floyd_warshall
Body == BalanceStep \/ PartitionStep \/ MatchStep \/ Return

FairSpec == Init /\ [][NextOnce]_vars /\ WF_vars(Body)

\* ------------------------------------------------- operators of the claims
\* weight of the edge u -> v, 0 when there is none
W(g, u, v) == IF HasEdge(g, u, v) THEN g.weight[<<u, v>>] ELSE 0

\* sum of the weights of the edges into p from the first n parties
RECURSIVE InTo(_, _, _)
InTo(g, p, n) ==
    IF n = 0 THEN 0 ELSE W(g, PartyList[n], p) + InTo(g, p, n - 1)

\* sum of the weights of the edges out of p to the first n parties
RECURSIVE OutOf(_, _, _)
OutOf(g, p, n) ==
    IF n = 0 THEN 0 ELSE W(g, p, PartyList[n]) + OutOf(g, p, n - 1)

\* (sum of the weights of the edges into p) - (sum of those out of p)
Net(g, p) == InTo(g, p, Len(PartyList)) - OutOf(g, p, Len(PartyList))

\* sum of the entries of a dict over the first n parties
RECURSIVE DictSum(_, _)
DictSum(d, n) ==
    IF n = 0 THEN 0 ELSE Get(d, PartyList[n]) + DictSum(d, n - 1)

NoRepeat(s) == \A m, n \in 1..Len(s) : s[m] = s[n] => m = n

PartyOrder(s) == [n \in 1..Len(s) |-> s[n][1]]

TransferPairs(s) == [n \in 1..Len(s) |-> <<s[n][1], s[n][2]>>]

RECURSIVE Endpoints(_)
Endpoints(es) ==
    IF es = <<>> THEN <<>>
    ELSE <<Head(es)[1], Head(es)[2]>> \o Endpoints(Tail(es))

RECURSIVE Dedupe(_, _)
Dedupe(s, seen) ==
    IF s = <<>> THEN seen ELSE Dedupe(Tail(s), AddNode(seen, Head(s)))

\* parties in order of first appearance in the enumeration of g's edges
EdgeOrder(g) == Dedupe(Endpoints(Edges(g)), <<>>)

IsDebtor(g, p) == Net(g, p) < 0

IsCreditor(g, p) == Net(g, p) > 0

OwingIn(g, order) == SelectSeq(order, LAMBDA p : IsDebtor(g, p))

OwedIn(g, order) == SelectSeq(order, LAMBDA p : IsCreditor(g, p))

\* optimize_transactions_floyd_warshall has returned
Done == pc = "idle" /\ calls >= 1

Exhausted == i = Len(debtors) /\ j = Len(creditors)

\* ---------------------------------------------------------------------- C1
\* C1: after optimize_transactions_floyd_warshall, for every party the sum
\* of the weights of the edges into it minus the sum of those out of it in
\* self.graph equals its net balance in the aggregated original graph, and
\* a party absent from the result has net balance 0.
C1_SettlementConservation ==
    Done => \A p \in Parties :
              /\ Net(graph, p) = Net(original, p)
              /\ ~InSeq(graph.nodes, p) => Net(original, p) = 0

C1_Witness ==
    /\ Done /\ calls = 1
    /\ Len(Edges(original)) >= 3
    /\ Len(Edges(graph)) >= 2
    /\ \E p \in Parties : Net(original, p) <= -2

\* ---------------------------------------------------------------------- C2
\* C2: the entries of the balance map sum to 0 after the balance loop and
\* after each individual edge it has processed.
C2_Conservation ==
    DictSum(balance, Len(PartyList)) = 0

C2_Witness ==
    /\ pc = "balance" /\ k >= 2 /\ k < Len(Edges(graph))
    /\ \E p \in Parties : Get(balance, p) < 0

\* ---------------------------------------------------------------------- C3
\* C3: add_transaction with amount <= 0 leaves the ledger unchanged and
\* reports an InvalidAmount failure.
C3_InvalidAmountRejected ==
    [][\A payer \in Parties, payee \in Parties, amount \in (0 - MaxRefund)..0 :
          AddTransactionStep(payer, payee, amount)
              => (graph' = graph /\ outcome' = "InvalidAmount")]_vars

\* ---------------------------------------------------------------------- C4
\* C4: the two-cursor matching loop terminates, and whenever the method has
\* returned both lists are exhausted: i = len(debtors) and j = len(creditors).
C4_TerminatesExhausted ==
    /\ [](pc = "match" => <>(pc = "idle"))
    /\ [](Done => Exhausted)

C4_Witness ==
    /\ Done /\ Exhausted
    /\ Len(debtors) >= 2 /\ Len(emitted) >= 2

\* ---------------------------------------------------------------------- C5
\* C5: after any sequence of add_transaction calls the ledger has at most
\* one edge per ordered pair, an edge exactly for the pairs supplied, and
\* its weight is the sum of the amounts supplied for the pair (a function
\* of the multiset of obligations per pair, not of their order or split).
C5_Aggregation ==
    (pc = "idle" /\ calls = 0) =>
        /\ \A u \in Parties : NoRepeat(graph.adj[u])
        /\ NoRepeat(graph.nodes)
        /\ \A u \in Parties, v \in Parties :
              /\ HasEdge(graph, u, v) <=> supplied[<<u, v>>] > 0
              /\ W(graph, u, v) = supplied[<<u, v>>]

C5_Witness ==
    /\ pc = "idle" /\ calls = 0
    /\ outcome = "merged"
    /\ \E e \in Pairs : supplied[e] >= 3
    /\ Len(Edges(graph)) >= 2

C7_TransfersDebtorToCreditor ==
    \A n \in 1..Len(emitted) :
        /\ Net(original, emitted[n][1]) < 0
        /\ Net(original, emitted[n][2]) > 0
        /\ emitted[n][3] > 0

C7_Witness ==
    /\ Done /\ Len(emitted) >= 1
    /\ \E p \in Parties :
          /\ InSeq(original.nodes, p)
          /\ Net(original, p) = 0
          /\ ~InSeq(graph.nodes, p)

\* ---------------------------------------------------------------------- C8
\* C8: with at least one debtor the number of transfers emitted is at most
\* len(debtors) + len(creditors) - 1, and it is 0 with no debtors and no
\* creditors.
C8_TransferCountBound ==
    /\ Len(debtors) >= 1 => Len(emitted) <= Len(debtors) + Len(creditors) - 1
    /\ (Len(debtors) = 0 /\ Len(creditors) = 0) => Len(emitted) = 0

C8_Witness ==
    /\ Done /\ Len(debtors) >= 1
    /\ Len(emitted) >= 2
    /\ Len(emitted) = Len(debtors) + Len(creditors) - 1

\* ---------------------------------------------------------------------- C9
\* C9: every iteration of the matching loop advances at least one cursor
\* and moves none back, emits a pair no earlier iteration emitted, and the
\* result graph has one edge per iteration, carrying that transfer's amount.
C9_CursorsAdvance ==
    [][emitted' # emitted /\ pc = "match" =>
          /\ i' >= i /\ j' >= j /\ i' + j' > i + j
          /\ NoRepeat(TransferPairs(emitted'))
          /\ Len(Edges(graph')) = Len(emitted')
          /\ \A n \in 1..Len(emitted') :
                W(graph', emitted'[n][1], emitted'[n][2]) = emitted'[n][3]]_vars

C9_Witness ==
    /\ Done /\ calls = 1
    /\ Len(emitted) >= 2
    /\ Len(Edges(graph)) = Len(emitted)
    /\ \E n \in 1..Len(debtors) : debtors[n][2] >= 2

\* --------------------------------------------------------------------- C10
\* C10: a second call of optimize_transactions_floyd_warshall with no
\* add_transaction in between leaves self.graph as the first call left it.
C10_OptimizeIdempotent ==
    (pc = "idle" /\ calls >= 2) => graph = entry

C10_Witness ==
    /\ pc = "idle" /\ calls = 2
    /\ Len(Edges(graph)) >= 2
    /\ graph = entry

====
